---- MODULE Spec2Model ----
(***************************************************************************)
(* discord-to-rss: a Discord channel is bridged to an Atom feed.  The      *)
(* serenity event handlers (Handler::message, Handler::ready) push         *)
(* ReceivedMessage records into a ring buffer of capacity 32 behind a      *)
(* tokio RwLock; the axum handler (httphandler) copies the buffer under    *)
(* the read lock and builds the feed from the copy.                        *)
(*                                                                         *)
(* Every handler invocation is a task.  A task's steps are the blocks of   *)
(* code between its .await points.                                         *)
(***************************************************************************)
EXTENDS Integers, Sequences, FiniteSets, TLC

VARIABLES
    hist,       \* number of messages posted so far in the configured channel (ids 1..hist)
    cached,     \* TRUE when the serenity cache knows the configured channel's name;
                \* the guild's data arrives before the first event of a run or not at all
    buffer,     \* the AllocRingBuffer's contents, oldest first (its iteration order)
    writer,     \* the task holding the store's write guard, or NoTask
    readers,    \* the tasks holding a read guard of the store
    waitq,      \* the tasks queued on the store's RwLock, first come first served
    dataReaders,\* the tasks holding a read guard of ctx.data
    mh,         \* the Handler::message tasks
    rh,         \* the Handler::ready tasks
    rq,         \* the httphandler tasks
    pushLog,    \* history: every push made so far, in order: the id of the message
                \* pushed and the task that pushed it
    proc,       \* the process: the shutdown request, the two subsystems, the Toplevel
    sample      \* a raw text, and what text2html and from_discord_message make of it

vars == <<hist, cached, buffer, writer, readers, waitq, dataReaders, mh, rh, rq, pushLog,
          proc, sample>>

----------------------------------------------------------------------------
(* Program constants *)

Capacity == 32

BacklogLimit == 20

TitleLen == 80

\* the configured channel (Cli::channel_id) and some other channel of the guild
ConfiguredChannel == "chan"

OtherChannel == "other"

(* Bounds of the model *)

\* Handler::message invocations
MaxEvents == 1

\* Handler::ready invocations (the first connect and the reconnects)
MaxReady == 2

\* feed requests
MaxReq == 1

\* tokens of a raw text given to text2html on its own
MaxToks == 3

\* the lengths of the channel's history when the process starts
InitHist == {0, 2, 21}

NoTask == <<"none", 0>>

None == [some |-> FALSE]

Some(v) == [some |-> TRUE, v |-> v]

MTask(k) == <<"message", k>>

RTask(k) == <<"ready", k>>

QTask(k) == <<"request", k>>

----------------------------------------------------------------------------
(* Sequences *)

Reverse(s) == [i \in 1..Len(s) |-> s[Len(s) + 1 - i]]

\* the last n elements of s (all of s when it is shorter)
LastN(s, n) == IF Len(s) <= n THEN s ELSE SubSeq(s, Len(s) - n + 1, Len(s))

RECURSIVE Concat(_)
Concat(ss) == IF ss = <<>> THEN "" ELSE Head(ss) \o Concat(Tail(ss))

----------------------------------------------------------------------------
(* Message text.  A raw text is a sequence of tokens [k, s]: s is the token's
   characters and k says what the HTML parser makes of them:
     "text"   characters without a meaning in markup
     "tag"    a tag outside the sanitizer's whitelist (a custom emoji tag too)
     "amp"    a markup-significant character standing for itself
   The link finder works on the characters of the sanitized text. *)

Tok(k, s) == [k |-> k, s |-> s]

Char(str, i) == SubSeq(str, i, i)

StartsWith(str, pat) == Len(str) >= Len(pat) /\ SubSeq(str, 1, Len(pat)) = pat

\* a sanitizer that lets every tag through
cleanTokKeepsTags(t) ==
    CASE t.k = "amp" -> "&amp;"
      [] OTHER       -> t.s

\* ammonia::clean on one token: a disallowed tag is dropped, a markup-significant
\* character is escaped, everything else is kept
cleanTok(t) ==
    CASE t.k = "tag" -> ""
      [] t.k = "amp" -> "&amp;"
      [] OTHER       -> t.s

\* ammonia::clean: the sanitized text, a string
clean(text) == Concat([i \in 1..Len(text) |-> cleanTok(text[i])])

IsSpace(c) == c = " "

\* the last position of the run of blanks or of non-blanks that starts at i
RunEnd[str \in STRING, i \in Nat] ==
    IF i < Len(str) /\ IsSpace(Char(str, i + 1)) = IsSpace(Char(str, i))
    THEN RunEnd[str, i + 1]
    ELSE i

\* str cut into its maximal runs of blanks and of non-blanks
Runs[str \in STRING] ==
    IF Len(str) = 0 THEN <<>>
    ELSE LET e == RunEnd[str, 1]
         IN  <<SubSeq(str, 1, e)>> \o Runs[SubSeq(str, e + 1, Len(str))]

\* punctuation the link finder leaves out at the end of a link
Trailing == {".", ",", ";", ":", "!", "?"}

CoreLen[w \in STRING] ==
    IF Len(w) > 0 /\ Char(w, Len(w)) \in Trailing
    THEN CoreLen[SubSeq(w, 1, Len(w) - 1)]
    ELSE Len(w)

IsUrl[w \in STRING] ==
    \E scheme \in {"https://", "http://"} : StartsWith(w, scheme) /\ Len(w) > Len(scheme)

IsEmail[w \in STRING] ==
    \E p \in 2..(Len(w) - 3) :
        /\ Char(w, p) = "@"
        /\ \E d \in (p + 2)..(Len(w) - 1) : Char(w, d) = "."

\* Span::kind: Some(LinkKind::Url), Some(LinkKind::Email), or None for plain text
kind[w \in STRING] ==
    IF IsUrl[w] THEN Some("url") ELSE IF IsEmail[w] THEN Some("email") ELSE None

Span(k, str) == [kind |-> k, s |-> str]

\* the spans of one run: a link-like run is a link span up to its trailing
\* punctuation, anything else is plain
runSpans[w \in STRING] ==
    LET n    == CoreLen[w]
        core == SubSeq(w, 1, n)
    IN  IF n = 0 \/ ~kind[core].some
        THEN <<Span(None, w)>>
        ELSE <<Span(kind[core], core)>>
             \o (IF n < Len(w) THEN <<Span(None, SubSeq(w, n + 1, Len(w)))>> ELSE <<>>)

\* LinkFinder::spans: the whole text as link spans and plain spans, in order
spans[str \in STRING] ==
    IF Len(str) = 0 THEN <<>>
    ELSE LET e == RunEnd[str, 1]
         IN  runSpans[SubSeq(str, 1, e)] \o spans[SubSeq(str, e + 1, Len(str))]

Spans == [kind : {None, Some("url"), Some("email")}, s : STRING]

\* a closure that makes anchors of URLs only
spanHtmlUrlOnly(span) ==
    IF span.kind = Some("url")
    THEN "<a href=\"" \o span.s \o "\">" \o span.s \o "</a>"
    ELSE span.s

\* the closure of text2html: a link span is wrapped in an anchor that points to
\* itself, any other span is copied
spanHtml(span) ==
    IF span.kind \in {Some("url"), Some("email")}
    THEN "<a href=\"" \o span.s \o "\">" \o span.s \o "</a>"
    ELSE span.s

\* .map(closure).collect::<String>()
collect[sp \in Seq(Spans)] ==
    IF sp = <<>> THEN "" ELSE spanHtml(Head(sp)) \o collect[Tail(sp)]

text2html(text) == "<pre>" \o collect[spans[clean(text)]] \o "</pre>"

\* substring(0, n) of the substring crate: the first n characters (all of them
\* when there are fewer)
substring0(str, n) == IF Len(str) <= n THEN str ELSE SubSeq(str, 1, n)

----------------------------------------------------------------------------
(* The gateway's messages.  A message of the configured channel is known by
   its position in the channel's history. *)

Texts == <<
    <<Tok("text", "text "), Tok("text", "https://example.com"), Tok("text", " text")>>,
    <<Tok("text", "@everyone "), Tok("tag", "<a:foo:123>")>>,
    <<>>,
    <<Tok("text", "mail "), Tok("text", "a@b.c"), Tok("amp", "&"), Tok("text", "x")>>,
    <<Tok("text", "0123456789012345678901234567890123456789"),
      Tok("text", "0123456789012345678901234567890123456789")>>,
    <<Tok("text", "01234567890123456789012345678901234"),
      Tok("text", "56789012345678901234567890123456789")>> >>

Authors == <<"alice", "bob", "alice#2">>

\* the serenity Message with id n
Message(n, ch) ==
    [ id               |-> n,
      channel_id       |-> ch,
      author           |-> Authors[(n % Len(Authors)) + 1],
      content          |-> Texts[(n % Len(Texts)) + 1],
      timestamp        |-> n,
      edited_timestamp |-> IF n % 4 = 0 THEN Some(n + 1) ELSE None ]

\* Message::link
link(m) == "https://discord.com/channels/@me/" \o m.channel_id \o "/" \o ToString(m.id)

\* ChannelId::name(cache): None on a cache miss
name(ch, cache) == IF cache THEN Some("#" \o ch) ELSE None

unwrap_or(opt, default) == IF opt.some THEN opt.v ELSE default

\* a channel name that is left empty on a cache miss
channel_nameOrEmpty(item, cache) == unwrap_or(name(item.channel_id, cache), "")

\* the channel_name field: the cached name, "Unknown Channel" on a cache miss
channel_name(item, cache) == unwrap_or(name(item.channel_id, cache), "Unknown Channel")

\* a record whose edit time is left at the epoch when the message was never edited
from_discord_messageNoFallback(item, cache) ==
    [ content           |-> text2html(item.content),
      author            |-> item.author,
      channel_name      |-> channel_name(item, cache),
      created_timestamp |-> item.timestamp,
      edited_timestamp  |-> unwrap_or(item.edited_timestamp, 0),
      id                |-> ToString(item.id),
      message_url       |-> link(item) ]

\* ReceivedMessage::from_discord_message
from_discord_message(item, cache) ==
    [ content           |-> text2html(item.content),
      author            |-> item.author,
      channel_name      |-> channel_name(item, cache),
      created_timestamp |-> item.timestamp,
      edited_timestamp  |-> unwrap_or(item.edited_timestamp, item.timestamp),
      id                |-> ToString(item.id),
      message_url       |-> link(item) ]

----------------------------------------------------------------------------
(* The store: AllocRingBuffer::with_capacity(Capacity) *)

is_full(buf) == Len(buf) = Capacity

\* a push that drops the newest element of a full buffer instead of the oldest
pushDropsNewest(buf, rec) ==
    IF is_full(buf) THEN Append(SubSeq(buf, 1, Len(buf) - 1), rec) ELSE Append(buf, rec)

\* RingBufferWrite::push: a full buffer drops its oldest element first
push(buf, rec) == IF is_full(buf) THEN Append(Tail(buf), rec) ELSE Append(buf, rec)

----------------------------------------------------------------------------
(* The feed: httphandler's loop over the snapshot *)

to_rfc3339(t) == <<"rfc3339", t>>

\* FixedDateTime::parse_from_rfc3339: Ok(time) for a well-formed text
parse_from_rfc3339(str) ==
    IF Len(str) = 2 /\ str[1] = "rfc3339" THEN Some(str[2]) ELSE None

\* an entry whose body is cut like its title
entryBodyCut(item) ==
    [ title     |-> item.author \o ": " \o substring0(item.content, TitleLen),
      content   |-> [value |-> Some(substring0(item.content, TitleLen))],
      authors   |-> <<[name |-> item.author]>>,
      published |-> parse_from_rfc3339(to_rfc3339(item.created_timestamp)),
      updated   |-> parse_from_rfc3339(to_rfc3339(item.edited_timestamp)).v,
      links     |-> <<[href |-> item.message_url]>>,
      id        |-> item.id ]

\* an entry whose title carries the whole content
entryTitleUncut(item) ==
    [ title     |-> item.author \o ": " \o item.content,
      content   |-> [value |-> Some(item.content)],
      authors   |-> <<[name |-> item.author]>>,
      published |-> parse_from_rfc3339(to_rfc3339(item.created_timestamp)),
      updated   |-> parse_from_rfc3339(to_rfc3339(item.edited_timestamp)).v,
      links     |-> <<[href |-> item.message_url]>>,
      id        |-> item.id ]

\* EntryBuilder ... build()
entry(item) ==
    [ title     |-> item.author \o ": " \o substring0(item.content, TitleLen),
      content   |-> [value |-> Some(item.content)],
      authors   |-> <<[name |-> item.author]>>,
      published |-> parse_from_rfc3339(to_rfc3339(item.created_timestamp)),
      updated   |-> parse_from_rfc3339(to_rfc3339(item.edited_timestamp)).v,
      links     |-> <<[href |-> item.message_url]>>,
      id        |-> item.id ]

\* a loop without .rev()
feedOrderForward(items) == items

\* the order httphandler visits the snapshot in: items.iter().rev()
feedOrder(items) == Reverse(items)

\* feed_builder.title(..); for item in items.iter().rev() { feed_builder.entry(..) }
buildFeed(items) ==
    LET visit == feedOrder(items)
    IN  [ title   |-> "Discord messages",
          entries |-> [i \in 1..Len(visit) |-> entry(visit[i])] ]

\* AtomFeed::into_response
into_response(feed) ==
    [ status       |-> 200,
      content_type |-> "application/atom+xml; charset=utf-8",
      body         |-> feed ]

----------------------------------------------------------------------------
(* The gateway's answer to ChannelId::messages(http, limit): the newest
   messages of the channel, newest first *)

messages(h, limit) ==
    LET n == IF h < limit THEN h ELSE limit
    IN  [i \in 1..n |-> Message(h + 1 - i, ConfiguredChannel)]

----------------------------------------------------------------------------
(* The store's tokio RwLock: waiters are served first come first served; a
   write guard needs the lock free, a read guard needs no writer *)

Waiter(t, mode) == [who |-> t, mode |-> mode]

\* a lock whose write guard does not wait for the read guards to be dropped
CanGrantOverReaders(w) == writer = NoTask

CanGrant(w) ==
    /\ writer = NoTask
    /\ w.mode = "write" => readers = {}

IsNext(t) == waitq # <<>> /\ Head(waitq).who = t /\ CanGrant(Head(waitq))

----------------------------------------------------------------------------
(* Tasks *)

IdleM == [pc |-> "idle", msg |-> None]

IdleR == [pc |-> "idle", msgs |-> <<>>, i |-> 0]

\* during: history, the on-ready handlers that were running when the request came
IdleQ == [pc |-> "idle", items |-> <<>>, i |-> 0, response |-> None, during |-> {}]

\* both subsystems started, no shutdown asked for
Running ==
    [ shutdown |-> FALSE,       \* SubsystemHandle::on_shutdown_requested has fired
      axum     |-> "serving",   \* AxumSubsystem::run: serving, draining, returned
      serenity |-> "running",   \* SerenitySubsystem::run: running, closing, closed,
                                \* stopped, returned
      shards   |-> "up",        \* the client's gateway shards: up, down
      branch   |-> "none",      \* the branch tokio::select! took: none, shutdown, stopped
      result   |-> None,        \* what SerenitySubsystem::run returned
      top      |-> "waiting" ]  \* Toplevel::handle_shutdown_requests: waiting, ok

\* main has not returned: the runtime runs its tasks
Alive == proc.top = "waiting"

\* the gateway shards deliver events to the handlers
Dispatching == proc.shards = "up"

\* the server takes new requests
Accepting == proc.axum = "serving"

NoSample == [raw |-> <<>>, html |-> None, rec |-> None]

Init ==
    /\ hist \in InitHist
    /\ cached \in BOOLEAN
    /\ buffer = <<>>
    /\ writer = NoTask
    /\ readers = {}
    /\ waitq = <<>>
    /\ dataReaders = {}
    /\ mh = [k \in 1..MaxEvents |-> IdleM]
    /\ rh = [k \in 1..MaxReady |-> IdleR]
    /\ rq = [k \in 1..(MaxReq + 1) |-> IdleQ]
    /\ pushLog = <<>>
    /\ proc = Running
    /\ sample = NoSample

\* a task slot is taken when the slots before it are
FirstIdle(tasks, k) == tasks[k].pc = "idle" /\ \A j \in 1..(k - 1) : tasks[j].pc # "idle"

----------------------------------------------------------------------------
(* Handler::message *)

\* the guards a task holds on ctx.data once the block that read it has ended
DataAfterLookup(t) == dataReaders \ {t}

\* a write guard that outlives its block
WriterKept(t) == t

\* the owner of the write guard once the block that took it has ended
WriterAfterScope(t) == NoTask

\* a handler without the channel test
InAnyChannel(msg) == TRUE

\* msg.channel_id == self.channel_id
InChannel(msg) == msg.channel_id = ConfiguredChannel

\* the message the gateway delivers to handler k: the next one of the configured
\* channel, or one of another channel
Delivered(k, ch) ==
    IF ch = ConfiguredChannel THEN Message(hist + 1, ch) ELSE Message(100 + k, ch)

\* the gateway delivers a message of channel ch and serenity spawns the handler:
\* if msg.channel_id == self.channel_id { ... ctx.data.read().await
MessageEvent(k, ch) ==
    /\ Alive
    /\ Dispatching
    /\ FirstIdle(mh, k)
    /\ hist' = IF ch = ConfiguredChannel THEN hist + 1 ELSE hist
    /\ IF InChannel(Delivered(k, ch))
       THEN /\ dataReaders' = dataReaders \cup {MTask(k)}
            /\ mh' = [mh EXCEPT ![k] = [pc |-> "data", msg |-> Some(Delivered(k, ch))]]
       ELSE /\ dataReaders' = dataReaders
            /\ mh' = [mh EXCEPT ![k] = [pc |-> "done", msg |-> Some(Delivered(k, ch))]]
    /\ UNCHANGED <<proc, sample, cached, buffer, writer, readers, waitq, rh, rq, pushLog>>

\* data_read.get::<MessageHolderKey>().unwrap().clone() }; buffer_lock.write().await
MessageLookup(k) ==
    /\ Alive
    /\ mh[k].pc = "data"
    /\ dataReaders' = DataAfterLookup(MTask(k))
    /\ waitq' = Append(waitq, Waiter(MTask(k), "write"))
    /\ mh' = [mh EXCEPT ![k].pc = "wlock"]
    /\ UNCHANGED <<proc, sample, hist, cached, buffer, writer, readers, rh, rq, pushLog>>

\* the write guard is granted; from_discord_message runs up to name(cache).await
MessageLocked(k) ==
    /\ Alive
    /\ mh[k].pc = "wlock"
    /\ IsNext(MTask(k))
    /\ writer' = MTask(k)
    /\ waitq' = Tail(waitq)
    /\ mh' = [mh EXCEPT ![k].pc = "name"]
    /\ UNCHANGED <<proc, sample, hist, cached, buffer, readers, dataReaders, rh, rq, pushLog>>

\* the record is finished and pushed; the guard goes out of scope
MessagePush(k) ==
    /\ Alive
    /\ mh[k].pc = "name"
    /\ buffer' = push(buffer, from_discord_message(mh[k].msg.v, cached))
    /\ pushLog' = Append(pushLog, [id |-> mh[k].msg.v.id, by |-> MTask(k)])
    /\ writer' = WriterAfterScope(MTask(k))
    /\ mh' = [mh EXCEPT ![k].pc = "done"]
    /\ UNCHANGED <<proc, sample, hist, cached, readers, waitq, dataReaders, rh, rq>>

----------------------------------------------------------------------------
(* Handler::ready *)

\* the fetched messages as the gateway sent them, newest first
messages_as_fetched(fetched) == fetched

\* .into_iter().rev().collect(): the fetched messages, oldest first
messages_reversed(fetched) == Reverse(fetched)

\* the gateway says READY (on the first connect and on every new session)
ReadyEvent(k) ==
    /\ Alive
    /\ Dispatching
    /\ FirstIdle(rh, k)
    /\ rh' = [rh EXCEPT ![k].pc = "fetch"]
    /\ UNCHANGED <<proc, sample, hist, cached, buffer, writer, readers, waitq, dataReaders, mh, rq, pushLog>>

\* self.channel_id.messages(ctx.http, |r| r.limit(20)).await.unwrap() ...
\* ctx.data.read().await
ReadyFetched(k) ==
    /\ Alive
    /\ rh[k].pc = "fetch"
    /\ rh' = [rh EXCEPT ![k] = [pc   |-> "data",
                                msgs |-> messages_reversed(messages(hist, BacklogLimit)),
                                i    |-> 0]]
    /\ dataReaders' = dataReaders \cup {RTask(k)}
    /\ UNCHANGED <<proc, sample, hist, cached, buffer, writer, readers, waitq, mh, rq, pushLog>>

\* the fetch fails: unwrap() panics and the task ends
ReadyFetchFailed(k) ==
    /\ Alive
    /\ rh[k].pc = "fetch"
    /\ rh' = [rh EXCEPT ![k].pc = "panicked"]
    /\ UNCHANGED <<proc, sample, hist, cached, buffer, writer, readers, waitq, dataReaders, mh, rq, pushLog>>

ReadyLookup(k) ==
    /\ Alive
    /\ rh[k].pc = "data"
    /\ dataReaders' = DataAfterLookup(RTask(k))
    /\ waitq' = Append(waitq, Waiter(RTask(k), "write"))
    /\ rh' = [rh EXCEPT ![k].pc = "wlock"]
    /\ UNCHANGED <<proc, sample, hist, cached, buffer, writer, readers, mh, rq, pushLog>>

\* the write guard is granted; with nothing fetched the loop body never runs
ReadyLocked(k) ==
    /\ Alive
    /\ rh[k].pc = "wlock"
    /\ IsNext(RTask(k))
    /\ waitq' = Tail(waitq)
    /\ IF rh[k].msgs = <<>>
       THEN /\ writer' = WriterAfterScope(RTask(k))
            /\ rh' = [rh EXCEPT ![k].pc = "done"]
       ELSE /\ writer' = RTask(k)
            /\ rh' = [rh EXCEPT ![k].pc = "name", ![k].i = 1]
    /\ UNCHANGED <<proc, sample, hist, cached, buffer, readers, dataReaders, mh, rq, pushLog>>

\* a write guard that is given back after every turn of the loop
WriterPerTurn(t) == NoTask

\* the owner of the write guard between two turns of the loop: the guard is
\* taken before the loop and lives through it
WriterInLoop(t) == t

\* one turn of the loop: the record of messages_reversed[i] is finished and
\* pushed; after the last one the guard goes out of scope
ReadyPush(k) ==
    /\ Alive
    /\ rh[k].pc = "name"
    /\ buffer' = push(buffer, from_discord_message(rh[k].msgs[rh[k].i], cached))
    /\ pushLog' = Append(pushLog, [id |-> rh[k].msgs[rh[k].i].id, by |-> RTask(k)])
    /\ IF rh[k].i < Len(rh[k].msgs)
       THEN /\ writer' = WriterInLoop(RTask(k))
            /\ rh' = [rh EXCEPT ![k].i = @ + 1]
       ELSE /\ writer' = WriterAfterScope(RTask(k))
            /\ rh' = [rh EXCEPT ![k].pc = "done"]
    /\ UNCHANGED <<proc, sample, hist, cached, readers, waitq, dataReaders, mh, rq>>

----------------------------------------------------------------------------
(* httphandler *)

\* the element the buffer's iterator yields after i others: oldest first
yielded(buf, i) == buf[i + 1]

\* an iterator that takes its element out of the buffer
AfterYieldDrained(buf) == Tail(buf)

\* the buffer after the iterator has yielded an element: iter() only borrows it
AfterYield(buf) == buf

\* GET /: axum calls httphandler, which asks for the read guard
Request(k) ==
    /\ Alive
    /\ Accepting
    /\ FirstIdle(rq, k)
    /\ waitq' = Append(waitq, Waiter(QTask(k), "read"))
    /\ rq' = [rq EXCEPT ![k].pc = "rlock",
                        ![k].during = {r \in DOMAIN rh : rh[r].pc \notin {"idle", "done", "panicked"}}]
    /\ UNCHANGED <<proc, sample, hist, cached, buffer, writer, readers, dataReaders, mh, rh, pushLog>>

\* a read guard that lives until the end of the handler
ReadersKept(t) == readers \cup {t}

\* the guard a request holds on the store once the copy has been collected
ReadersAfterCopy(t) == readers \ {t}

\* the read guard is granted; an empty buffer is collected at once
RequestLocked(k) ==
    /\ Alive
    /\ rq[k].pc = "rlock"
    /\ IsNext(QTask(k))
    /\ waitq' = Tail(waitq)
    /\ IF buffer = <<>>
       THEN /\ readers' = ReadersAfterCopy(QTask(k))
            /\ rq' = [rq EXCEPT ![k].pc = "build"]
       ELSE /\ readers' = readers \cup {QTask(k)}
            /\ rq' = [rq EXCEPT ![k].pc = "copy"]
    /\ UNCHANGED <<proc, sample, hist, cached, buffer, writer, dataReaders, mh, rh, pushLog>>

\* buffer.iter().cloned().collect(): one element is cloned; after the last one
\* the read guard goes out of scope
RequestCopy(k) ==
    /\ Alive
    /\ rq[k].pc = "copy"
    /\ rq[k].i < Len(buffer)
    /\ buffer' = AfterYield(buffer)
    /\ IF rq[k].i + 1 < Len(buffer)
       THEN /\ readers' = readers
            /\ rq' = [rq EXCEPT ![k].items = Append(@, yielded(buffer, rq[k].i)), ![k].i = @ + 1]
       ELSE /\ readers' = ReadersAfterCopy(QTask(k))
            /\ rq' = [rq EXCEPT ![k].items = Append(@, yielded(buffer, rq[k].i)), ![k].i = @ + 1,
                                ![k].pc = "build"]
    /\ UNCHANGED <<proc, sample, hist, cached, writer, waitq, dataReaders, mh, rh, pushLog>>

\* the feed is built from the copy and turned into the response
RequestBuild(k) ==
    /\ Alive
    /\ rq[k].pc = "build"
    /\ rq' = [rq EXCEPT ![k].response = Some(into_response(buildFeed(rq[k].items))),
                        ![k].pc = "respond"]
    /\ UNCHANGED <<proc, sample, hist, cached, buffer, writer, readers, waitq, dataReaders, mh, rh, pushLog>>

\* the response is written to the client and the task ends
RequestRespond(k) ==
    /\ Alive
    /\ rq[k].pc = "respond"
    /\ rq' = [rq EXCEPT ![k] = [IdleQ EXCEPT !.pc = "done"]]
    /\ UNCHANGED <<proc, sample, hist, cached, buffer, writer, readers, waitq, dataReaders, mh, rh, pushLog>>

----------------------------------------------------------------------------
\* at most e Handler::message, r Handler::ready and q httphandler invocations
NextOf(e, r, q) ==
    \/ \E k \in 1..e, ch \in {ConfiguredChannel, OtherChannel} : MessageEvent(k, ch)
    \/ \E k \in 1..e : MessageLookup(k)
    \/ \E k \in 1..e : MessageLocked(k)
    \/ \E k \in 1..e : MessagePush(k)
    \/ \E k \in 1..r : ReadyEvent(k)
    \/ \E k \in 1..r : ReadyFetched(k)
    \/ \E k \in 1..r : ReadyFetchFailed(k)
    \/ \E k \in 1..r : ReadyLookup(k)
    \/ \E k \in 1..r : ReadyLocked(k)
    \/ \E k \in 1..r : ReadyPush(k)
    \/ \E k \in 1..q : Request(k)
    \/ \E k \in 1..q : RequestLocked(k)
    \/ \E k \in 1..q : RequestCopy(k)
    \/ \E k \in 1..q : RequestBuild(k)
    \/ \E k \in 1..q : RequestRespond(k)

Next == NextOf(MaxEvents, MaxReady, MaxReq)

Spec == Init /\ [][Next]_vars

\* two concurrent feed requests beside one on-ready and one on-message handler
NextRequests == NextOf(MaxEvents, MaxReady - 1, MaxReq + 1)

SpecRequests == Init /\ [][NextRequests]_vars

\* one handler of each kind, contending for the store's lock
NextContend == NextOf(MaxEvents, MaxReady - 1, MaxReq)

\* the steps of the tasks themselves: what the tokio runtime schedules once a
\* task exists (the events and the requests are the environment's to send)
TaskStep ==
    \/ \E k \in 1..MaxEvents : MessageLookup(k) \/ MessageLocked(k) \/ MessagePush(k)
    \/ \E k \in 1..(MaxReady - 1) :
          \/ ReadyFetched(k) \/ ReadyFetchFailed(k) \/ ReadyLookup(k)
          \/ ReadyLocked(k) \/ ReadyPush(k)
    \/ \E k \in 1..MaxReq :
          \/ RequestLocked(k) \/ RequestCopy(k) \/ RequestBuild(k) \/ RequestRespond(k)

\* a task that can run is run in the end
FairSpec == Init /\ [][NextContend]_vars /\ WF_vars(TaskStep)

----------------------------------------------------------------------------
(* The process: main starts the two subsystems under a Toplevel that catches
   the termination signals.  The 10 s that handle_shutdown_requests allows the
   subsystems are longer than any step here and are not a step of the model. *)

\* SIGINT or SIGTERM arrives (Toplevel::catch_signals)
ShutdownRequest ==
    /\ Alive
    /\ ~proc.shutdown
    /\ proc' = [proc EXCEPT !.shutdown = TRUE]
    /\ UNCHANGED <<sample, hist, cached, buffer, writer, readers, waitq, dataReaders, mh, rh,
                   rq, pushLog>>

\* with_graceful_shutdown(subsys.on_shutdown_requested()): the server stops
\* taking requests
GracefulShutdown ==
    /\ Alive
    /\ proc.shutdown
    /\ proc.axum = "serving"
    /\ proc' = [proc EXCEPT !.axum = "draining"]
    /\ UNCHANGED <<sample, hist, cached, buffer, writer, readers, waitq, dataReaders, mh, rh,
                   rq, pushLog>>

\* no request is being served
Drained(tasks) == \A k \in DOMAIN tasks : tasks[k].pc \in {"idle", "done"}

\* the requests in flight are answered and the serve future ends: run returns
AxumReturn ==
    /\ Alive
    /\ proc.axum = "draining"
    /\ Drained(rq)
    /\ proc' = [proc EXCEPT !.axum = "returned"]
    /\ UNCHANGED <<sample, hist, cached, buffer, writer, readers, waitq, dataReaders, mh, rh,
                   rq, pushLog>>

\* tokio::select!: subsys.on_shutdown_requested() is ready; client.start() is dropped
SerenityShutdownRequested ==
    /\ Alive
    /\ proc.shutdown
    /\ proc.serenity = "running"
    /\ proc' = [proc EXCEPT !.serenity = "closing", !.branch = "shutdown"]
    /\ UNCHANGED <<sample, hist, cached, buffer, writer, readers, waitq, dataReaders, mh, rh,
                   rq, pushLog>>

\* a branch that leaves the shards as they are
shards_left(shards) == shards

\* ShardManager::shutdown_all: every shard is shut down
shutdown_all(shards) == "down"

\* client.shard_manager.lock().await.shutdown_all().await
ShutdownAll ==
    /\ Alive
    /\ proc.serenity = "closing"
    /\ proc' = [proc EXCEPT !.serenity = "closed", !.shards = shutdown_all(proc.shards)]
    /\ UNCHANGED <<sample, hist, cached, buffer, writer, readers, waitq, dataReaders, mh, rh,
                   rq, pushLog>>

\* tokio::select!: client.start() returns, with or without an error: the
\* client's shard manager has ended and its shards with it; the error is logged
ClientStopped ==
    /\ Alive
    /\ proc.serenity = "running"
    /\ proc' = [proc EXCEPT !.serenity = "stopped", !.branch = "stopped", !.shards = "down"]
    /\ UNCHANGED <<sample, hist, cached, buffer, writer, readers, waitq, dataReaders, mh, rh,
                   rq, pushLog>>

\* a run that hands on the client's failure
run_result_of_client(branch) == IF branch = "stopped" THEN "Err" ELSE "Ok"

\* the value of SerenitySubsystem::run: Ok(()) after either branch
run_result(branch) == "Ok"

\* Ok(()): run returns; the Toplevel asks for a shutdown when a subsystem
\* returns an error
SerenityReturn ==
    /\ Alive
    /\ proc.serenity \in {"closed", "stopped"}
    /\ proc' = [proc EXCEPT !.serenity = "returned",
                            !.result   = Some(run_result(proc.branch)),
                            !.shutdown = @ \/ run_result(proc.branch) = "Err"]
    /\ UNCHANGED <<sample, hist, cached, buffer, writer, readers, waitq, dataReaders, mh, rh,
                   rq, pushLog>>

\* handle_shutdown_requests: after the shutdown request both subsystems have
\* ended; main returns
ToplevelReturn ==
    /\ Alive
    /\ proc.shutdown
    /\ proc.axum = "returned"
    /\ proc.serenity = "returned"
    /\ proc' = [proc EXCEPT !.top = "ok"]
    /\ UNCHANGED <<sample, hist, cached, buffer, writer, readers, waitq, dataReaders, mh, rh,
                   rq, pushLog>>

\* the steps of the two subsystems and of the Toplevel
LifeStep ==
    \/ GracefulShutdown
    \/ AxumReturn
    \/ SerenityShutdownRequested
    \/ ShutdownAll
    \/ SerenityReturn
    \/ ToplevelReturn

\* the process with one on-message handler and one request beside it
NextLife ==
    \/ \E ch \in {ConfiguredChannel, OtherChannel} : MessageEvent(1, ch)
    \/ MessageLookup(1)
    \/ MessageLocked(1)
    \/ MessagePush(1)
    \/ Request(1)
    \/ RequestLocked(1)
    \/ RequestCopy(1)
    \/ RequestBuild(1)
    \/ RequestRespond(1)
    \/ ShutdownRequest
    \/ ClientStopped
    \/ GracefulShutdown
    \/ AxumReturn
    \/ SerenityShutdownRequested
    \/ ShutdownAll
    \/ SerenityReturn
    \/ ToplevelReturn

\* the steps of the handler and of the request
LifeTaskStep ==
    \/ MessageLookup(1) \/ MessageLocked(1) \/ MessagePush(1)
    \/ RequestLocked(1) \/ RequestCopy(1) \/ RequestBuild(1) \/ RequestRespond(1)

\* the runtime runs every task that can run, the subsystems' own as well
FairLife == Init /\ [][NextLife]_vars /\ WF_vars(LifeTaskStep) /\ WF_vars(LifeStep)

----------------------------------------------------------------------------
(* Auxiliary definitions of the properties *)

MaxInitHist == CHOOSE h \in InitHist : \A g \in InitHist : g <= h

\* the record of every message of the configured channel, by message id and by
\* what the cache knows
RecordTable ==
    [n \in 1..(MaxInitHist + MaxEvents), c \in BOOLEAN |->
        from_discord_message(Message(n, ConfiguredChannel), c)]

PushedIds == [i \in 1..Len(pushLog) |-> pushLog[i].id]

\* the store after the first n pushes of the run: the last Capacity of them
StoreAfter(n) ==
    LET ids == LastN(SubSeq(PushedIds, 1, n), Capacity)
    IN  [i \in 1..Len(ids) |-> RecordTable[ids[i], cached]]

Ids(recs) == [i \in 1..Len(recs) |-> recs[i].id]

Requests == DOMAIN rq

\* the requests whose snapshot is complete
Snapshotted == {k \in Requests : rq[k].pc \in {"build", "respond"}}

\* the requests whose feed document is built
Responding == {k \in Requests : rq[k].pc = "respond"}

Entries(k) == rq[k].response.v.body.entries

----------------------------------------------------------------------------
(* C1: after n pushes the store holds exactly the last min(n, 32) pushed
   records, in push order; it never holds more than 32; a push into a full
   store drops the oldest record and nothing else. *)
C1_BoundedEviction ==
    /\ Len(buffer) <= Capacity
    /\ Len(buffer) = IF Len(pushLog) < Capacity THEN Len(pushLog) ELSE Capacity
    /\ buffer = StoreAfter(Len(pushLog))

\* more records have been pushed than the store holds
C1_Witness == Len(pushLog) > Capacity + 1 /\ Len(buffer) = Capacity

\* the requests that are copying the store
Copying == {k \in Requests : rq[k].pc = "copy"}

(* C2: a snapshot taken while handlers push equals the store as it was after
   some number of completed pushes, and a copy under way is the beginning of
   it: no push is ever half visible to a request. *)
C2_SnapshotIsolation ==
    /\ \A k \in Snapshotted : \E n \in 0..Len(pushLog) : rq[k].items = StoreAfter(n)
    /\ \A k \in Copying : \E n \in 0..Len(pushLog) :
          /\ Len(rq[k].items) <= Len(StoreAfter(n))
          /\ rq[k].items = SubSeq(StoreAfter(n), 1, Len(rq[k].items))

\* a snapshot that a handler, still holding the write guard, has pushed past
C2_Witness ==
    \E k \in Snapshotted :
        /\ Len(rq[k].items) >= 2
        /\ rq[k].items # buffer
        /\ writer # NoTask

----------------------------------------------------------------------------
Events == DOMAIN mh

Readys == DOMAIN rh

\* the ids of the messages task t has pushed so far, in order
PushedBy(t) ==
    LET Mine(e) == e.by = t
        mine    == SelectSeq(pushLog, Mine)
    IN  [i \in 1..Len(mine) |-> mine[i].id]

(* C4 as claimed: a handler that is building a record (it is suspended at the
   channel-name lookup inside from_discord_message) does not hold the store's
   write guard: the guard is held for the push alone. *)
C4_BuiltBeforeLock ==
    /\ \A k \in Events : mh[k].pc = "name" => writer # MTask(k)
    /\ \A k \in Readys : rh[k].pc = "name" => writer # RTask(k)

(* C5 as claimed: no two records of the store share an id. *)
C5_DistinctIds ==
    \A i, j \in 1..Len(buffer) : i # j => buffer[i].id # buffer[j].id

\* the pushes a ready task has made: all of its turns of the loop so far
ReadyTurns(k) ==
    CASE rh[k].pc = "name" -> rh[k].i - 1
      [] rh[k].pc = "done" -> Len(rh[k].msgs)
      [] OTHER             -> 0

(* C6: an on-ready handler fetches the newest messages of the configured
   channel, at most 20 of them and all of them when the channel has fewer, and
   pushes one record per fetched message, oldest first, and nothing else. *)
C6_BacklogSeed ==
    \A k \in Readys :
        LET msgs == rh[k].msgs
            n    == Len(msgs)
        IN  /\ n <= BacklogLimit
            /\ rh[k].pc \in {"data", "wlock", "name", "done"} =>
                 \E h \in 0..hist :
                    /\ n = IF h < BacklogLimit THEN h ELSE BacklogLimit
                    /\ \A i \in 1..n : /\ msgs[i].id = h - n + i
                                       /\ msgs[i].channel_id = ConfiguredChannel
            /\ PushedBy(RTask(k)) = [i \in 1..ReadyTurns(k) |-> msgs[i].id]

\* a finished handler that found more than 20 messages and pushed 20
C6_Witness ==
    \E k \in Readys :
        /\ rh[k].pc = "done"
        /\ hist > BacklogLimit
        /\ Len(PushedBy(RTask(k))) = BacklogLimit

(* C7: an on-message handler pushes exactly one record, that of its message,
   when the message is of the configured channel; for any other channel it
   pushes nothing and never asks for a guard of the store or of ctx.data. *)
C7_ChannelFilter ==
    \A k \in Events : mh[k].pc # "idle" =>
        LET m == mh[k].msg.v
        IN  IF m.channel_id = ConfiguredChannel
            THEN PushedBy(MTask(k)) = IF mh[k].pc = "done" THEN <<m.id>> ELSE <<>>
            ELSE /\ PushedBy(MTask(k)) = <<>>
                 /\ mh[k].pc = "done"
                 /\ writer # MTask(k)
                 /\ MTask(k) \notin dataReaders
                 /\ \A i \in 1..Len(waitq) : waitq[i].who # MTask(k)

\* a finished handler of a message of the configured channel, its record stored
C7_Witness ==
    \E k \in Events :
        /\ mh[k].pc = "done"
        /\ mh[k].msg.v.channel_id = ConfiguredChannel
        /\ PushedBy(MTask(k)) = <<mh[k].msg.v.id>>
        /\ buffer # <<>> /\ buffer[Len(buffer)].id = ToString(mh[k].msg.v.id)

\* a request never holds or awaits the write guard
RequestsReadOnly ==
    /\ \A k \in Requests : writer # QTask(k)
    /\ \A i \in 1..Len(waitq) :
          waitq[i].who \in {QTask(k) : k \in Requests} => waitq[i].mode = "read"

(* C8: no step of a feed request changes the store, and a request takes the
   store's lock in read mode only. *)
C8_RequestsLeaveStore ==
    /\ []RequestsReadOnly
    /\ [][rq' # rq => buffer' = buffer /\ pushLog' = pushLog]_vars

\* two requests hold the read guard of a non-empty store at once
C8_Witness ==
    /\ Cardinality(readers) = 2
    /\ \A k \in {1, 2} : rq[k].pc = "copy" /\ rq[k].i >= 1

\* a task queued on the store's lock holds no guard at all
NoNestedAcquisition ==
    \A i \in 1..Len(waitq) :
        /\ waitq[i].who \notin dataReaders
        /\ waitq[i].who \notin readers
        /\ waitq[i].who # writer

(* C9: under fair scheduling every handler that asks for the write guard pushes
   and finishes, and every request that asks for the read guard gets its
   snapshot; a task waiting for the store's lock holds no other guard. *)
C9_NoDeadlock ==
    /\ []NoNestedAcquisition
    /\ \A k \in 1..MaxEvents : (mh[k].pc = "wlock") ~> (mh[k].pc = "done")
    /\ \A k \in 1..(MaxReady - 1) : (rh[k].pc = "wlock") ~> (rh[k].pc = "done")
    /\ \A k \in 1..MaxReq :
          (rq[k].pc = "rlock") ~> (rq[k].pc \in {"build", "respond", "done"})

\* two tasks wait for the lock while a handler holds the write guard
C9_Witness == writer # NoTask /\ Len(waitq) >= 2

\* what C10 compares: id, author, link and body
RecordKey(item) == <<item.id, item.author, item.message_url, item.content>>

EntryKey(e) == <<e.id, e.authors[1].name, e.links[1].href, e.content.value.v>>

Count(seq, x) == Cardinality({i \in 1..Len(seq) : seq[i] = x})

(* C10: the feed document has exactly one entry per record of the snapshot,
   carrying that record's id, author, permalink and content; an empty snapshot
   gives a document without entries, answered with 200 like any other. *)
C10_OneEntryPerRecord ==
    \A k \in Responding :
        LET es   == [i \in 1..Len(Entries(k)) |-> EntryKey(Entries(k)[i])]
            recs == [i \in 1..Len(rq[k].items) |-> RecordKey(rq[k].items[i])]
        IN  /\ Len(es) = Len(recs)
            /\ \A i \in 1..Len(Entries(k)) :
                  /\ Len(Entries(k)[i].authors) = 1
                  /\ Len(Entries(k)[i].links) = 1
                  /\ Entries(k)[i].content.value.some
            /\ \A i \in 1..Len(recs) : Count(es, recs[i]) = Count(recs, recs[i])
            /\ rq[k].response.v.status = 200

\* a feed document of a snapshot that holds a record longer than a title
C10_Witness ==
    \E k \in Responding :
        \E i \in 1..Len(rq[k].items) : Len(rq[k].items[i].content) > TitleLen

----------------------------------------------------------------------------
\* the records a responding request built its entries from, in entry order
EntryRecords(k) == Reverse(rq[k].items)

\* the first n characters of str, taken one by one
RECURSIVE FirstChars(_, _)
FirstChars(str, n) ==
    IF n = 0 \/ Len(str) = 0
    THEN ""
    ELSE SubSeq(str, 1, 1) \o FirstChars(SubSeq(str, 2, Len(str)), n - 1)

(* C11: an entry's title is the record's author, ": ", and the first 80
   characters of the record's content: all of a content of 80 characters or
   fewer, exactly 80 of a longer one. *)
C11_TitleTruncation ==
    \A k \in Responding : \A i \in 1..Len(Entries(k)) :
        LET rec   == EntryRecords(k)[i]
            title == Entries(k)[i].title
        IN  /\ title = rec.author \o ": " \o FirstChars(rec.content, 80)
            /\ Len(title) = Len(rec.author) + 2
                            + (IF Len(rec.content) < 80 THEN Len(rec.content) ELSE 80)

\* a feed with an entry for a content of 81 characters
C11_Witness ==
    \E k \in Responding : \E i \in 1..Len(Entries(k)) :
        /\ Len(EntryRecords(k)[i].content) = 81
        /\ Len(Entries(k)[i].title) = Len(EntryRecords(k)[i].author) + 2 + 80

----------------------------------------------------------------------------
(* text2html on its own: a raw text is drawn from the token sequences over
   Alphabet, and one step sanitizes it, directly and as the content of a
   message turned into a record. *)

Alphabet ==
    { Tok("text", "text"), Tok("text", " "), Tok("text", "."),
      Tok("text", "https://"), Tok("text", "example.com"),
      Tok("text", "a@b.c"), Tok("text", "@everyone"),
      Tok("tag", "<a:foo:123>"), Tok("amp", "&") }

RawTexts == UNION {[1..n -> Alphabet] : n \in 0..MaxToks}

\* a message of the configured channel whose text is raw
SampleMessage(raw) == [Message(1, ConfiguredChannel) EXCEPT !.content = raw]

InitText ==
    /\ hist = 0
    /\ cached = FALSE
    /\ buffer = <<>>
    /\ writer = NoTask
    /\ readers = {}
    /\ waitq = <<>>
    /\ dataReaders = {}
    /\ mh = [k \in 1..MaxEvents |-> IdleM]
    /\ rh = [k \in 1..MaxReady |-> IdleR]
    /\ rq = [k \in 1..(MaxReq + 1) |-> IdleQ]
    /\ pushLog = <<>>
    /\ proc = Running
    /\ sample \in {[raw |-> t, html |-> None, rec |-> None] : t \in RawTexts}

Sanitize ==
    /\ ~sample.html.some
    /\ \E cache \in BOOLEAN :
        sample' = [ raw  |-> sample.raw,
                    html |-> Some(text2html(sample.raw)),
                    rec  |-> Some(from_discord_message(SampleMessage(sample.raw), cache)) ]
    /\ UNCHANGED <<hist, cached, buffer, writer, readers, waitq, dataReaders, mh, rh, rq,
                   pushLog, proc>>

NextText == Sanitize

SpecText == InitText /\ [][NextText]_vars

\* the first position of pat in str, 0 when it does not occur
RECURSIVE IndexFrom(_, _, _)
IndexFrom(str, pat, i) ==
    IF i + Len(pat) - 1 > Len(str) THEN 0
    ELSE IF SubSeq(str, i, i + Len(pat) - 1) = pat THEN i
    ELSE IndexFrom(str, pat, i + 1)

IndexOf(str, pat) == IndexFrom(str, pat, 1)

RECURSIVE Occurrences(_, _)
Occurrences(str, pat) ==
    LET p == IndexOf(str, pat)
    IN  IF p = 0 THEN 0
        ELSE 1 + Occurrences(SubSeq(str, p + Len(pat), Len(str)), pat)

After(str, p) == SubSeq(str, p, Len(str))

\* an HTML text read back as its anchors [href, s] and the plain text between them
RECURSIVE Segments(_)
Segments(str) ==
    LET open == "<a href=\""
        p    == IndexOf(str, open)
    IN  IF Len(str) = 0 THEN <<>>
        ELSE IF p = 0 THEN <<[href |-> None, s |-> str]>>
        ELSE LET rest  == After(str, p + Len(open))
                 q     == IndexOf(rest, "\">")
                 rest2 == After(rest, q + 2)
                 r     == IndexOf(rest2, "</a>")
             IN  (IF p > 1 THEN <<[href |-> None, s |-> SubSeq(str, 1, p - 1)]>> ELSE <<>>)
                 \o <<[href |-> Some(SubSeq(rest, 1, q - 1)), s |-> SubSeq(rest2, 1, r - 1)]>>
                 \o Segments(After(rest2, r + 4))

\* what is inside the <pre> container of html
Inner(html) == SubSeq(html, 6, Len(html) - 6)

\* the link-like runs of str, without their trailing punctuation
LinkRuns(str) ==
    LET runs == Runs[str]
    IN  SelectSeq([i \in 1..Len(runs) |-> SubSeq(runs[i], 1, CoreLen[runs[i]])],
                  LAMBDA w : Len(w) > 0 /\ kind[w].some)

\* C12: text2html wraps every URL-like and email-like span of the sanitized text
\* in an anchor whose target and label are the span itself, copies every other
\* span as it is and in order, and puts the whole in one <pre> container; an
\* empty text gives an empty container.
C12_LinksWrapped ==
    sample.html.some =>
        LET html    == sample.html.v
            cleaned == clean(sample.raw)
            segs    == Segments(Inner(html))
            anchors == SelectSeq(segs, LAMBDA g : g.href.some)
        IN  /\ StartsWith(html, "<pre>")
            /\ Len(html) >= 11
            /\ After(html, Len(html) - 5) = "</pre>"
            /\ Occurrences(html, "<pre>") = 1
            /\ Occurrences(html, "</pre>") = 1
            /\ Concat([i \in 1..Len(segs) |-> segs[i].s]) = cleaned
            /\ \A i \in 1..Len(anchors) : anchors[i].href = Some(anchors[i].s)
            /\ [i \in 1..Len(anchors) |-> anchors[i].s] = LinkRuns(cleaned)
            /\ (sample.raw = <<>> => html = "<pre></pre>")

\* a text with a URL, an email address and plain text between them has been wrapped
C12_Witness ==
    /\ sample.html.some
    /\ LET segs == Segments(Inner(sample.html.v))
       IN  /\ \E i \in 1..Len(segs) : segs[i].href.some /\ IsEmail[segs[i].s]
           /\ \E i \in 1..Len(segs) : ~segs[i].href.some
           /\ Len(segs) >= 3

\* the characters a raw text is written with, markup and all
RawString(raw) == Concat([i \in 1..Len(raw) |-> raw[i].s])

\* the raw text without its tags, its markup-significant characters escaped
Untagged(raw) ==
    LET keep == SelectSeq(raw, LAMBDA t : t.k # "tag")
    IN  Concat([i \in 1..Len(keep) |-> IF keep[i].k = "amp" THEN "&amp;" ELSE keep[i].s])

\* C13: text2html removes every disallowed inline-markup sequence from its input
\* before the links are looked for and keeps the plain text next to it: no tag of
\* the raw text occurs in the output, the output's text is the raw text without
\* its tags, the anchors are the links of that text, and the content of the
\* record built from the message is this output, never the raw text.
C13_MarkupRemoved ==
    sample.html.some =>
        LET html    == sample.html.v
            segs    == Segments(Inner(html))
            anchors == SelectSeq(segs, LAMBDA g : g.href.some)
            tagged  == \E i \in 1..Len(sample.raw) : sample.raw[i].k = "tag"
        IN  /\ \A i \in 1..Len(sample.raw) :
                  sample.raw[i].k = "tag" => IndexOf(html, sample.raw[i].s) = 0
            /\ Concat([i \in 1..Len(segs) |-> segs[i].s]) = Untagged(sample.raw)
            /\ [i \in 1..Len(anchors) |-> anchors[i].s] = LinkRuns(Untagged(sample.raw))
            /\ sample.rec.v.content = html
            /\ tagged => IndexOf(sample.rec.v.content, RawString(sample.raw)) = 0

\* a URL written around a custom emoji tag has been sanitized into one link
C13_Witness ==
    /\ sample.html.some
    /\ sample.raw = <<Tok("text", "https://"), Tok("tag", "<a:foo:123>"),
                      Tok("text", "example.com")>>
    /\ sample.rec.v.content
         = "<pre><a href=\"https://example.com\">https://example.com</a></pre>"

----------------------------------------------------------------------------
(* C14: when the channel's name is not in the cache, every record is built
   with the channel name "Unknown Channel" and is otherwise the record a
   successful lookup gives; it is pushed all the same: a finished on-message
   handler has pushed its message, a finished on-ready handler all of its
   backlog, and no handler fails at the lookup. *)
C14_UnknownChannel ==
    ~cached =>
        /\ \A i \in 1..Len(buffer) :
              LET id == LastN(PushedIds, Capacity)[i]
              IN  /\ buffer[i].channel_name = "Unknown Channel"
                  /\ buffer[i] = [RecordTable[id, TRUE] EXCEPT !.channel_name = "Unknown Channel"]
        /\ \A k \in Events :
              /\ mh[k].pc \in {"idle", "data", "wlock", "name", "done"}
              /\ (mh[k].pc = "done" /\ mh[k].msg.v.channel_id = ConfiguredChannel)
                    => PushedBy(MTask(k)) = <<mh[k].msg.v.id>>
        /\ \A k \in Readys :
              /\ rh[k].pc = "done" => Len(PushedBy(RTask(k))) = Len(rh[k].msgs)
              /\ rh[k].pc = "panicked" => PushedBy(RTask(k)) = <<>>

\* with no name in the cache, a live message and a backlog have been stored
C14_Witness ==
    /\ ~cached
    /\ \E k \in Events : mh[k].pc = "done" /\ PushedBy(MTask(k)) # <<>>
    /\ \E k \in Readys : rh[k].pc = "done" /\ Len(PushedBy(RTask(k))) >= 2
    /\ \A i \in 1..Len(buffer) : buffer[i].channel_name = "Unknown Channel"

----------------------------------------------------------------------------
(* C16: a request holds the store's read guard only while it copies the
   contents: when it builds the entries, and when it serializes the document
   into the response, it holds no guard and waits for none. *)
C16_ReadLockCopyOnly ==
    \A k \in Requests :
        /\ QTask(k) \in readers => rq[k].pc = "copy"
        /\ rq[k].pc \in {"build", "respond", "done"} =>
              /\ QTask(k) \notin readers
              /\ \A i \in 1..Len(waitq) : waitq[i].who # QTask(k)

\* a request builds its feed from a copy of several records while a handler
\* holds the write guard
C16_Witness ==
    \E k \in Requests :
        /\ rq[k].pc \in {"build", "respond"}
        /\ Len(rq[k].items) >= 2
        /\ writer # NoTask

----------------------------------------------------------------------------
\* the positions in pushLog of the pushes of on-ready handler r
Batch(r) == {i \in 1..Len(pushLog) : pushLog[i].by = RTask(r)}

\* the positions in pushLog of the records the store holds after n pushes
Kept(n) == {i \in 1..n : i > n - Capacity}

\* no push of another task lies between two pushes of one on-ready handler
BatchesContiguous ==
    \A r \in Readys :
        LET b == Batch(r)
            c == Cardinality(b)
        IN  \A i, j \in b : j - i < c

(* C17 as claimed: the snapshot of a request that came while an on-ready
   handler was running holds none of that handler's backlog records or all of
   them, and no other push lies between two pushes of one backlog. *)
C17_NoneOrAll ==
    /\ \A k \in Snapshotted : \E n \in 0..Len(pushLog) :
          /\ rq[k].items = StoreAfter(n)
          /\ \A r \in rq[k].during :
                \/ Batch(r) \cap Kept(n) = {}
                \/ /\ Batch(r) \subseteq Kept(n)
                   /\ Cardinality(Batch(r)) = Len(rh[r].msgs)
    /\ BatchesContiguous

(* C17 as amended: a snapshot, and a copy under way, is of the store as it
   was when every on-ready handler had pushed none of its backlog or all of
   it (the snapshot holds what the 32 slots still keep of a backlog pushed in
   full), and no other push lies between two pushes of one backlog. *)
C17_BatchAtomic ==
    /\ \A k \in Snapshotted \cup Copying : \E n \in 0..Len(pushLog) :
          /\ Len(rq[k].items) <= Len(StoreAfter(n))
          /\ rq[k].items = SubSeq(StoreAfter(n), 1, Len(rq[k].items))
          /\ k \in Snapshotted => rq[k].items = StoreAfter(n)
          /\ \A r \in Readys :
                \/ Batch(r) \cap 1..n = {}
                \/ /\ Batch(r) \subseteq 1..n
                   /\ Cardinality(Batch(r)) = Len(rh[r].msgs)
    /\ BatchesContiguous

\* a request that came while an on-ready handler was running has copied that
\* handler's whole backlog, and an on-message handler has pushed as well
C17_Witness ==
    /\ \E k \in Snapshotted : \E r \in rq[k].during :
          /\ Cardinality(Batch(r)) = Len(rh[r].msgs)
          /\ Len(rh[r].msgs) >= 2
          /\ \E n \in 0..Len(pushLog) :
                rq[k].items = StoreAfter(n) /\ Batch(r) \subseteq Kept(n)
    /\ \E e \in Events : PushedBy(MTask(e)) # <<>>

----------------------------------------------------------------------------
(* C18 as claimed: the records of the store are in creation order, oldest
   first: no record comes after one that was created later. *)
C18_CreationOrder ==
    \A i, j \in 1..Len(buffer) :
        i < j => buffer[i].created_timestamp <= buffer[j].created_timestamp

----------------------------------------------------------------------------
(* C20: a record's edited timestamp is the message's edit timestamp when the
   message has one and the record's created timestamp otherwise; the feed
   entry's updated time is the record's edited timestamp and its published
   time the created one, so that for a never-edited message the two are equal. *)
C20_EditedTimestamp ==
    /\ \A i \in 1..Len(buffer) :
          LET m == Message(LastN(PushedIds, Capacity)[i], ConfiguredChannel)
          IN  /\ buffer[i].created_timestamp = m.timestamp
              /\ buffer[i].edited_timestamp =
                    IF m.edited_timestamp.some THEN m.edited_timestamp.v
                    ELSE buffer[i].created_timestamp
    /\ \A k \in Responding : \A i \in 1..Len(Entries(k)) :
          LET rec == EntryRecords(k)[i]
              e   == Entries(k)[i]
          IN  /\ e.updated = rec.edited_timestamp
              /\ e.published = Some(rec.created_timestamp)
              /\ rec.edited_timestamp = rec.created_timestamp => e.published = Some(e.updated)

\* a feed with an entry of a never-edited message, updated when published, and
\* an entry of an edited one
C20_Witness ==
    \E k \in Responding : \E i, j \in 1..Len(Entries(k)) :
        /\ Entries(k)[i].published = Some(Entries(k)[i].updated)
        /\ EntryRecords(k)[i].id \in {ToString(n) : n \in {n \in 1..hist : n % 4 # 0}}
        /\ Entries(k)[j].published # Some(Entries(k)[j].updated)

----------------------------------------------------------------------------
(* C15: once a shutdown is requested both subsystems end: the server's run
   returns, and only when no request is in flight any more; the gateway
   client's run returns, and when it does every shard is shut down. *)
C15_ShutdownTerminates ==
    /\ [](proc.axum = "returned" =>
            proc.shutdown /\ \A k \in Requests : rq[k].pc \in {"idle", "done"})
    /\ [](proc.serenity = "returned" => proc.shards = "down")
    /\ [](proc.branch = "shutdown" /\ proc.serenity \in {"closed", "returned"}
            => proc.shards = "down")
    /\ (proc.shutdown ~> (proc.axum = "returned" /\ proc.serenity = "returned"))

\* after a shutdown request the process has ended through the shutdown branch,
\* its request answered and its message stored
C15_Witness ==
    /\ proc.top = "ok"
    /\ proc.branch = "shutdown"
    /\ proc.shards = "down"
    /\ rq[1].pc = "done"
    /\ buffer # <<>>

\* no handler is running
HandlersDone ==
    /\ \A k \in Events : mh[k].pc \in {"idle", "done"}
    /\ \A k \in Readys : rh[k].pc \in {"idle", "done", "panicked"}

(* C19: when the gateway client stops on its own, SerenitySubsystem::run ends
   with Ok and no shutdown is requested by it: the stop and the return change
   neither the shutdown request nor the server nor the store; while no
   shutdown is requested the server goes on serving, every request it takes
   is answered, and once the handlers already running have finished the store
   does not change any more. *)
C19_ClientStopKeepsServing ==
    /\ [][proc.serenity \in {"running", "stopped"} /\ proc'.serenity \in {"stopped", "returned"}
            /\ proc'.serenity # proc.serenity
          => /\ proc'.shutdown = proc.shutdown
             /\ proc'.axum = proc.axum
             /\ buffer' = buffer]_vars
    /\ [](proc.branch = "stopped" /\ proc.serenity = "returned" => proc.result = Some("Ok"))
    /\ [](proc.branch = "stopped" /\ ~proc.shutdown => Accepting /\ Alive)
    /\ [][proc.branch = "stopped" /\ HandlersDone => buffer' = buffer]_vars
    /\ ((rq[1].pc = "rlock") ~> (rq[1].pc = "done"))

\* the client has stopped on its own and run has returned Ok; no shutdown is
\* requested, and a request is answered from the store
C19_Witness ==
    /\ proc.branch = "stopped"
    /\ proc.serenity = "returned"
    /\ proc.result = Some("Ok")
    /\ ~proc.shutdown
    /\ rq[1].pc = "respond"
    /\ buffer # <<>>
    /\ rq[1].items = buffer
====
